---- MODULE Spec2Model ----
(***************************************************************************)
(* A model of the resy reservation tool: the ResyClient session and slot   *)
(* matcher (src/src/resy-client.ts), the ResyScheduler snipe loop          *)
(* (src/src/scheduler.ts) and the snipe command that drives them           *)
(* (src/src/index.ts).                                                     *)
(*                                                                         *)
(* The Node.js event loop is modelled as one action per macrotask: a timer *)
(* tick, the arrival of a provider response, or a call of the public API.  *)
(* Every action runs the resumed code up to its next await, as the single  *)
(* JavaScript thread does.  How long a provider call takes is not fixed:   *)
(* a response may arrive before or after any number of timer ticks.        *)
(***************************************************************************)
EXTENDS Integers, Sequences, FiniteSets, TLC

\* ---------------------------------------------------------------- bounds
MaxVenues == 2
MaxAttemptCount == 2
MaxInFlight == 2
MaxAttemptsOption == 1
ClockStep == 12
MaxNow == 36
MaxSlots == 3
MaxClockMs == 3000
MaxFirings == 4

\* ------------------------------------------------------- program constants
TokenLifetimeHours == 24

\* saveCachedToken adds 24 to the local hour of the clock: the hours that
\* then separate the expiry from now are 24, less one when the local clock
\* is set forward in between, plus one when it is set back.
DstShifts == {-1, 0, 1}
ToleranceMinutes == 15
CronThresholdSeconds == 60

\* ------------------------------------------------------------ time strings
\* A time string: p is "AM" or "PM" for a 12-hour display string and "" for
\* a 24-hour "HH:MM" string.
TimeStr(h, m, p) == [h |-> h, m |-> m, p |-> p]

\* normalizeTime with line 320 left out: 12 AM stays hour 12.
normalizeTime_NoMidnight(time) ==
  IF time.p \in {"AM", "PM"}
    THEN LET h0 == time.h
             hours == IF time.p = "PM" /\ h0 # 12 THEN h0 + 12 ELSE h0
         IN  hours * 60 + time.m
    ELSE time.h * 60 + time.m

normalizeTime(time) ==
  IF time.p \in {"AM", "PM"}
    THEN LET h0 == time.h
             h1 == IF time.p = "PM" /\ h0 # 12 THEN h0 + 12 ELSE h0
             hours == IF time.p = "AM" /\ h1 = 12 THEN 0 ELSE h1
         IN  hours * 60 + time.m
    ELSE time.h * 60 + time.m

\* ------------------------------------------------------------------- slots
\* parseSlot: the provider's Slot (start "YYYY-MM-DD HH:MM:SS") becomes an
\* AvailableSlot with a 12-hour display time.
parseSlot(slot) ==
  LET hours == slot.start[1]
      minutes == slot.start[2]
      period == IF hours >= 12 THEN "PM" ELSE "AM"
      displayHours == IF hours % 12 = 0 THEN 12 ELSE hours % 12
  IN  [time |-> TimeStr(displayHours, minutes, period),
       token |-> slot.token,
       type |-> slot.type,
       quantity |-> slot.quantity]

RECURSIVE parseSlots(_)
parseSlots(raw) ==
  IF raw = <<>> THEN <<>>
  ELSE <<parseSlot(Head(raw))>> \o parseSlots(Tail(raw))

NoSlot == [time |-> TimeStr(0, 0, ""), token |-> "none", type |-> "none", quantity |-> 0]

\* An optional string list of the configuration: undefined, or a list.
Undefined == [defined |-> FALSE, list |-> <<>>]
Some(l) == [defined |-> TRUE, list |-> l]

\* a || b on optional lists: an array, even an empty one, is truthy.
OrElse(a, b) == IF a.defined THEN a ELSE b

Abs(x) == IF x < 0 THEN -x ELSE x

Min(a, b) == IF a <= b THEN a ELSE b

\* minDistance with Math.abs left out: a slot before a preferred time has a
\* negative distance.
RECURSIVE minDistance_Signed(_, _)
minDistance_Signed(slotTime, normalizedPreferred) ==
  IF Len(normalizedPreferred) = 1
    THEN slotTime - normalizedPreferred[1]
    ELSE Min(slotTime - normalizedPreferred[1],
             minDistance_Signed(slotTime, Tail(normalizedPreferred)))

RECURSIVE minDistance(_, _)
minDistance(slotTime, normalizedPreferred) ==
  IF Len(normalizedPreferred) = 1
    THEN Abs(slotTime - normalizedPreferred[1])
    ELSE Min(Abs(slotTime - normalizedPreferred[1]),
             minDistance(slotTime, Tail(normalizedPreferred)))

RECURSIVE SelectSeqBy(_, _)
SelectSeqBy(s, keep) ==
  IF s = <<>> THEN <<>>
  ELSE IF keep[Head(s)] THEN <<Head(s)>> \o SelectSeqBy(Tail(s), keep)
       ELSE SelectSeqBy(Tail(s), keep)

\* Array.prototype.sort with comparator a.distance - b.distance: a stable
\* ascending sort; x goes after every element whose distance is <= its own.
\* insertStable for a sort that is not stable: x goes before the elements
\* of its own distance.
RECURSIVE insertStable_TiesFirst(_, _)
insertStable_TiesFirst(sorted, x) ==
  IF sorted = <<>> THEN <<x>>
  ELSE IF Head(sorted).distance < x.distance
         THEN <<Head(sorted)>> \o insertStable_TiesFirst(Tail(sorted), x)
         ELSE <<x>> \o sorted

RECURSIVE insertStable(_, _)
insertStable(sorted, x) ==
  IF sorted = <<>> THEN <<x>>
  ELSE IF Head(sorted).distance <= x.distance
         THEN <<Head(sorted)>> \o insertStable(Tail(sorted), x)
         ELSE <<x>> \o sorted

RECURSIVE sortByDistance(_)
sortByDistance(s) ==
  IF s = <<>> THEN <<>>
  ELSE insertStable(sortByDistance(SubSeq(s, 1, Len(s) - 1)), s[Len(s)])

\* filterSlotsByTime with the length test of line 277 left out: with an
\* empty list Math.min() is Infinity and every slot is dropped.
filterSlotsByTime_EmptyListFilters(slots, preferredTimes) ==
  IF ~preferredTimes.defined
    THEN slots
    ELSE IF Len(preferredTimes.list) = 0
    THEN <<>>
    ELSE LET normalizedPreferred ==
               [i \in 1..Len(preferredTimes.list) |-> normalizeTime(preferredTimes.list[i])]
             withDistance ==
               [i \in 1..Len(slots) |->
                  [slot |-> slots[i],
                   distance |-> minDistance(normalizeTime(slots[i].time), normalizedPreferred)]]
             within == [x \in {withDistance[i] : i \in 1..Len(slots)} |->
                          x.distance <= ToleranceMinutes]
             slotsWithDistance == sortByDistance(SelectSeqBy(withDistance, within))
         IN  [i \in 1..Len(slotsWithDistance) |-> slotsWithDistance[i].slot]

filterSlotsByTime(slots, preferredTimes) ==
  IF ~preferredTimes.defined \/ Len(preferredTimes.list) = 0
    THEN slots
    ELSE LET normalizedPreferred ==
               [i \in 1..Len(preferredTimes.list) |-> normalizeTime(preferredTimes.list[i])]
             withDistance ==
               [i \in 1..Len(slots) |->
                  [slot |-> slots[i],
                   distance |-> minDistance(normalizeTime(slots[i].time), normalizedPreferred)]]
             within == [x \in {withDistance[i] : i \in 1..Len(slots)} |->
                          x.distance <= ToleranceMinutes]
             slotsWithDistance == sortByDistance(SelectSeqBy(withDistance, within))
         IN  [i \in 1..Len(slotsWithDistance) |-> slotsWithDistance[i].slot]

\* The category filter taking an empty requested set as a set no slot is in.
filterSlotsByTableType_EmptySetDrops(slots, tableTypes) ==
  IF ~tableTypes.defined
    THEN slots
    ELSE LET wanted == {tableTypes.list[i] : i \in 1..Len(tableTypes.list)}
             keep == [x \in {slots[i] : i \in 1..Len(slots)} |-> x.type \in wanted]
         IN  SelectSeqBy(slots, keep)

\* The category filter, called by the scheduler and the commands.
filterSlotsByTableType(slots, tableTypes) ==
  IF ~tableTypes.defined \/ Len(tableTypes.list) = 0
    THEN slots
    ELSE LET wanted == {tableTypes.list[i] : i \in 1..Len(tableTypes.list)}
             keep == [x \in {slots[i] : i \in 1..Len(slots)} |-> x.type \in wanted]
         IN  SelectSeqBy(slots, keep)


\* ----------------------------------------------------------- configuration
Time1200 == TimeStr(12, 0, "")
Time2000 == TimeStr(20, 0, "")

\* The Targets of config.venues; every second one overrides the preferences.
VenueConfig(i) ==
  [id |-> i,
   preferredTimes |-> IF i % 2 = 0 THEN Some(<<Time2000>>) ELSE Undefined,
   preferredTableTypes |-> IF i % 2 = 0 THEN Some(<<"Patio">>) ELSE Undefined]

AllVenues == [i \in 1..MaxVenues |-> VenueConfig(i)]

\* The preferences of config.json: none, or lunch at a table.  With the
\* latter no slot the provider offers matches a venue without overrides.
NoPreferences == [preferredTimes |-> Undefined, preferredTableTypes |-> Undefined]
LunchAtTable == [preferredTimes |-> Some(<<Time1200>>), preferredTableTypes |-> Some(<<"Table">>)]

Preferences == {NoPreferences, LunchAtTable}

\* --interval: the default of the snipe command, and one of a minute or more.
DefaultInterval == 30
IntervalChoices == {DefaultInterval, 90}

\* --------------------------------------------------------------- provider
SlotTable == [start |-> <<19, 10>>, type |-> "Table", quantity |-> 1, token |-> "rgs1"]
SlotPatio == [start |-> <<20, 0>>, type |-> "Patio", quantity |-> 0, token |-> "rgs2"]

\* What /4/find can answer: an error, or the slots of the venue.
FindResponses ==
  { [ok |-> FALSE, slots |-> <<>>],
    [ok |-> TRUE, slots |-> <<>>],
    [ok |-> TRUE, slots |-> <<SlotPatio, SlotTable>>],
    [ok |-> TRUE, slots |-> <<SlotTable>>],
    [ok |-> TRUE, slots |-> <<SlotPatio>>] }

\* What /3/details can answer: an error, or a book token with the user's
\* payment methods.
NoBookToken == "none"
DetailsResponses ==
  { [ok |-> FALSE, book_token |-> NoBookToken, payment_methods |-> <<>>],
    [ok |-> TRUE, book_token |-> NoBookToken, payment_methods |-> <<>>],
    [ok |-> TRUE, book_token |-> "bt1", payment_methods |-> <<>>],
    [ok |-> TRUE, book_token |-> "bt1",
     payment_methods |-> << [id |-> 7, is_default |-> FALSE],
                            [id |-> 8, is_default |-> TRUE] >>] }

\* No /3/book request is in flight.
NoCommit == [book_token |-> NoBookToken]

AuthPaymentMethodId == 5
CachedPaymentMethodId == 4
NoPaymentMethod == 0
NoToken == "none"

\* A .resy-token file that does not parse, as a failed write leaves it.
UnreadableFile ==
  [state |-> "corrupt", token |-> NoToken, paymentMethodId |-> NoPaymentMethod, expiry |-> 0]

\* The .resy-token file at process start.
TokenFiles ==
  { [state |-> "missing", token |-> NoToken, paymentMethodId |-> NoPaymentMethod, expiry |-> 0],
    UnreadableFile,
    [state |-> "ok", token |-> "cached", paymentMethodId |-> CachedPaymentMethodId, expiry |-> 0],
    [state |-> "ok", token |-> "cached", paymentMethodId |-> CachedPaymentMethodId, expiry |-> ClockStep] }

\* ------------------------------------------------------------------- state
VARIABLES
  command,          \* the command of the process: "snipe" or "book"
  phase,            \* position of the command's action: "start", "constructed",
                    \* "authenticating", "ready", "sniping", "booking", "exited"
  now,              \* wall clock, hours
  tokenFile,        \* the persisted credential record
  authToken,        \* ResyClient.authToken
  paymentMethodId,  \* ResyClient.paymentMethodId
  tokenExpiry,      \* expiry instant of the credential held in authToken
  config,           \* venues and preferences of config.json
  options,          \* SnipeOptions
  isRunning,        \* ResyScheduler.isRunning
  attemptCount,     \* ResyScheduler.attemptCount
  scheduledTask,    \* ResyScheduler.scheduledTask: "none" or "task"
  cronLive,         \* the node-cron task is scheduled
  intervalArmed,    \* the setInterval timer is armed
  cycles,           \* the invocations of checkAndBook, by attempt number
  outcome,          \* the promise snipe() returned
  bookLoop,         \* the for loop of the book command
  stopCalled,       \* stop() has been called
  detailsCalled,    \* a /3/details request has been sent
  commitCalled,     \* a /3/book request has been sent
  commitSuccesses,  \* number of /3/book requests the provider accepted
  slotFound,        \* a cycle has selected a best slot (onSlotFound)
  expiredUse,       \* a request carrying the token was sent at or after its expiry
  matcher,          \* a call of a slot filter: its arguments and what it returned
  timeCase,         \* a start time, its display string and what they normalize to
  oneShot,          \* a call of scheduleAtTime: the clock, the target and the timer
  cadence           \* the instants at which a snipe run starts its cycles

vars == << command, phase, now, tokenFile, authToken, paymentMethodId, tokenExpiry, config,
           options, isRunning, attemptCount, scheduledTask, cronLive, intervalArmed,
           cycles, outcome, bookLoop, stopCalled, detailsCalled, commitCalled,
           commitSuccesses, slotFound, expiredUse, matcher, timeCase, oneShot, cadence >>

\* The state of the commands (the client, the scheduler and their provider
\* calls), and the state of the functions that are called on their own.
Program == << command, phase, now, tokenFile, authToken, paymentMethodId, tokenExpiry, config,
              options, isRunning, attemptCount, scheduledTask, cronLive, intervalArmed,
              cycles, outcome, bookLoop, stopCalled, detailsCalled, commitCalled,
              commitSuccesses, slotFound, expiredUse >>
Aside == << matcher, timeCase, oneShot, cadence >>

\* No call of a filter, of normalizeTime or of scheduleAtTime has been made,
\* and no run is timed.
NoTimer == -1

NoMatcherCall ==
  [pc |-> "none", slots |-> << >>, preferredTimes |-> Undefined,
   tableTypes |-> Undefined, result |-> << >>]

NoTimeCase ==
  [pc |-> "none", h |-> 0, m |-> 0, display |-> TimeStr(0, 0, ""),
   fromDisplay |-> 0, fromMilitary |-> 0]

NoOneShot ==
  [pc |-> "none", input |-> [format |-> "date", day |-> 0, h |-> 0, m |-> 0, sec |-> 0, ms |-> 0],
   shift |-> 0, now |-> 0, target |-> 0, targetDays |-> 0, calledAt |-> 0,
   timer |-> NoTimer, timerDays |-> 0, invoked |-> 0, cancelledAt |-> "never"]

NoCadence ==
  [pc |-> "none", intervalSeconds |-> 0, startedAt |-> 0, last |-> 0, gap |-> 0, fires |-> 0]

CycleIds == 1..MaxAttemptCount

\* An invocation of checkAndBook: the await it is suspended at (pc), the index
\* of the venue of its for loop (v) and its bestSlot.
IdleCycle == [pc |-> "idle", v |-> 0, slot |-> NoSlot, request |-> NoCommit]
DoneCycle == [pc |-> "done", v |-> 0, slot |-> NoSlot, request |-> NoCommit]

InFlight(cs) == {c \in CycleIds : cs[c].pc \in {"find", "details", "book"}}

\* The settlement of the promise: pending, null (why: the max attempts check
\* or the running flag found false), or the BookingResult of a commit.
Pending == [kind |-> "pending", why |-> "", slot |-> NoSlot, venue |-> 0]
NullResult(why) == [kind |-> "null", why |-> why, slot |-> NoSlot, venue |-> 0]
BookingResult(slot, v) == [kind |-> "result", why |-> "booked", slot |-> slot, venue |-> v]

\* The scheduler and client fields the handlers read and write, as one record.
S == [isRunning |-> isRunning, attemptCount |-> attemptCount,
      scheduledTask |-> scheduledTask, cronLive |-> cronLive,
      intervalArmed |-> intervalArmed, cycles |-> cycles, outcome |-> outcome,
      bookLoop |-> bookLoop,
      stopCalled |-> stopCalled, paymentMethodId |-> paymentMethodId,
      detailsCalled |-> detailsCalled, commitCalled |-> commitCalled,
      commitSuccesses |-> commitSuccesses, slotFound |-> slotFound,
      expiredUse |-> expiredUse]

Set(t) ==
  /\ isRunning' = t.isRunning
  /\ attemptCount' = t.attemptCount
  /\ scheduledTask' = t.scheduledTask
  /\ cronLive' = t.cronLive
  /\ intervalArmed' = t.intervalArmed
  /\ cycles' = t.cycles
  /\ outcome' = t.outcome
  /\ bookLoop' = t.bookLoop
  /\ stopCalled' = t.stopCalled
  /\ paymentMethodId' = t.paymentMethodId
  /\ detailsCalled' = t.detailsCalled
  /\ commitCalled' = t.commitCalled
  /\ commitSuccesses' = t.commitSuccesses
  /\ slotFound' = t.slotFound
  /\ expiredUse' = t.expiredUse

\* A request carrying X-Resy-Auth-Token leaves for the provider.
Request(s) == [s EXCEPT !.expiredUse = @ \/ ~(now < tokenExpiry)]

\* ------------------------------------------------------ ResyScheduler.stop
\* stop with line 157 left out: the running flag stays as it is.
stop_KeepsRunning(s) ==
  [s EXCEPT !.cronLive = IF s.scheduledTask # "none" THEN FALSE ELSE @,
            !.scheduledTask = "none",
            !.stopCalled = TRUE]

stop(s) ==
  [s EXCEPT !.isRunning = FALSE,
            !.cronLive = IF s.scheduledTask # "none" THEN FALSE ELSE @,
            !.scheduledTask = "none",
            !.stopCalled = TRUE]

\* resolve of the promise of snipe(): only the first call settles it.
resolve(s, r) == IF s.outcome.kind = "pending" THEN [s EXCEPT !.outcome = r] ELSE s

\* -------------------------------------------------- checkAndBook, by await
\* findAvailableSlots sends /4/find for venue v and the cycle awaits it.
findAvailableSlots(s, c, v) ==
  [Request(s) EXCEPT !.cycles[c] = [pc |-> "find", v |-> v, slot |-> NoSlot, request |-> NoCommit]]

\* Lines 126-132: the max attempts check that ends a cycle.
checkMaxAttempts(s, c) ==
  LET d == [s EXCEPT !.cycles[c] = DoneCycle]
  IN  IF options.maxAttempts # 0 /\ d.attemptCount >= options.maxAttempts
        THEN resolve(stop(d), NullResult("exhausted"))
        ELSE d

\* The for loop over venues, entered at venue v.
forVenues(s, c, v) ==
  IF v <= Len(config.venues) THEN findAvailableSlots(s, c, v) ELSE checkMaxAttempts(s, c)

\* continue: on to the next venue of the cycle.
continue(s, c) == forVenues(s, c, s.cycles[c].v + 1)

\* Lines 45-53: the top of checkAndBook.
checkAndBook(s) ==
  IF ~s.isRunning
    THEN resolve(s, NullResult("stopped"))
    ELSE LET c == s.attemptCount + 1
         IN  forVenues([s EXCEPT !.attemptCount = c], c, 1)

\* getBookingDetails sends /3/details for the slot's config token.
getBookingDetails(s, c, slot) ==
  [Request(s) EXCEPT !.cycles[c] = [pc |-> "details", v |-> @.v, slot |-> slot, request |-> NoCommit],
                     !.detailsCalled = TRUE]

\* bookReservation up to its first await.
bookReservation(s, c, slot) == getBookingDetails(s, c, slot)

\* Lines 57-58: the preferences in force for venue v.
timesOf(v) == OrElse(config.venues[v].preferredTimes, config.preferredTimes)
tableTypesOf(v) == OrElse(config.venues[v].preferredTableTypes, config.preferredTableTypes)

\* resy-client.ts lines 132-144: the slots findAvailableSlots returns.
slotsOf(resp) == IF resp.ok THEN parseSlots(resp.slots) ELSE <<>>

\* afterFind with the dry-run test of lines 95-98 left out.
afterFind_IgnoreDryRun(s, c, resp) ==
  LET times == timesOf(s.cycles[c].v)
      tableTypes == tableTypesOf(s.cycles[c].v)
      slots == slotsOf(resp)
      typed == filterSlotsByTableType(slots, tableTypes)
      filteredSlots == filterSlotsByTime(typed, times)
  IN  IF Len(slots) = 0 THEN continue(s, c)
      ELSE IF Len(typed) = 0 THEN continue(s, c)
      ELSE IF Len(filteredSlots) = 0 THEN continue(s, c)
      ELSE LET found == [s EXCEPT !.slotFound = TRUE]
           IN  bookReservation(found, c, filteredSlots[1])

\* Lines 67-102: the /4/find response arrived for cycle c.
afterFind(s, c, resp) ==
  LET times == timesOf(s.cycles[c].v)
      tableTypes == tableTypesOf(s.cycles[c].v)
      slots == slotsOf(resp)
      typed == filterSlotsByTableType(slots, tableTypes)
      filteredSlots == filterSlotsByTime(typed, times)
  IN  IF Len(slots) = 0 THEN continue(s, c)
      ELSE IF Len(typed) = 0 THEN continue(s, c)
      ELSE IF Len(filteredSlots) = 0 THEN continue(s, c)
      ELSE LET found == [s EXCEPT !.slotFound = TRUE]
           IN  IF options.dryRun THEN continue(found, c)
               ELSE bookReservation(found, c, filteredSlots[1])

\* refreshPaymentMethod without the search for the default method.
refreshPaymentMethod_FirstListed(current, methods) ==
  IF Len(methods) > 0 THEN methods[1].id ELSE current

\* resy-client.ts lines 207-212: the payment method of the details response.
refreshPaymentMethod(current, methods) ==
  IF Len(methods) > 0
    THEN IF \E i \in 1..Len(methods) : methods[i].is_default
           THEN methods[CHOOSE i \in 1..Len(methods) :
                          /\ methods[i].is_default
                          /\ \A j \in 1..(i - 1) : ~methods[j].is_default].id
           ELSE methods[1].id
    ELSE current

\* resy-client.ts lines 239-246: the /3/book request, with the book token of
\* the details.  Its struct_payment_method is the field paymentMethodId of
\* the client as it is when the request is built, in the step that handles
\* the details response.
bookRequest(s, bookToken) == [book_token |-> bookToken]

\* afterDetails with a test of isRunning in front: a stopped scheduler drops
\* the booking and ends the cycle.
afterDetails_ChecksRunning(s, c, resp) ==
  IF ~s.isRunning
    THEN [s EXCEPT !.cycles[c] = DoneCycle]
    ELSE IF ~resp.ok
      THEN continue(s, c)
      ELSE LET t == [s EXCEPT !.paymentMethodId =
                                refreshPaymentMethod(@, resp.payment_methods)]
           IN  IF resp.book_token = NoBookToken
                 THEN continue(t, c)
                 ELSE [Request(t) EXCEPT
                         !.cycles[c] = [pc |-> "book", v |-> @.v, slot |-> @.slot,
                                        request |-> bookRequest(t, resp.book_token)],
                         !.commitCalled = TRUE]

\* resy-client.ts lines 232-258: the /3/details response arrived; on null the
\* booking fails, as it does when the details carry no book token (the
\* TypeError of line 236 is caught at line 268); else /3/book is sent.
afterDetails(s, c, resp) ==
  IF ~resp.ok
    THEN continue(s, c)
    ELSE LET t == [s EXCEPT !.paymentMethodId =
                              refreshPaymentMethod(@, resp.payment_methods)]
         IN  IF resp.book_token = NoBookToken
               THEN continue(t, c)
               ELSE [Request(t) EXCEPT
                       !.cycles[c] = [pc |-> "book", v |-> @.v, slot |-> @.slot,
                                      request |-> bookRequest(t, resp.book_token)],
                       !.commitCalled = TRUE]

\* afterBook where a failed booking ends the cycle at once.
afterBook_AbortsOnFailure(s, c, success) ==
  IF success
    THEN LET t == [s EXCEPT !.commitSuccesses = @ + 1]
             result == BookingResult(s.cycles[c].slot, s.cycles[c].v)
             d == [stop(t) EXCEPT !.cycles[c] = DoneCycle]
         IN  resolve(d, result)
    ELSE [s EXCEPT !.cycles[c] = DoneCycle]

\* afterBook where a failed booking is tried again for the same slot.
afterBook_RetriesOnFailure(s, c, success) ==
  IF success
    THEN LET t == [s EXCEPT !.commitSuccesses = @ + 1]
             result == BookingResult(s.cycles[c].slot, s.cycles[c].v)
             d == [stop(t) EXCEPT !.cycles[c] = DoneCycle]
         IN  resolve(d, result)
    ELSE bookReservation(s, c, s.cycles[c].slot)

\* afterBook with the return of line 117 left out: the loop goes on.
afterBook_NoReturn(s, c, success) ==
  IF success
    THEN LET t == [s EXCEPT !.commitSuccesses = @ + 1]
             result == BookingResult(s.cycles[c].slot, s.cycles[c].v)
         IN  continue(resolve(stop(t), result), c)
    ELSE continue(s, c)

\* Lines 104-120: the /3/book response arrived.
afterBook(s, c, success) ==
  IF success
    THEN LET t == [s EXCEPT !.commitSuccesses = @ + 1]
             result == BookingResult(s.cycles[c].slot, s.cycles[c].v)
             d == [stop(t) EXCEPT !.cycles[c] = DoneCycle]
         IN  resolve(d, result)
    ELSE continue(s, c)

\* ------------------------------------------- the book command, by await
\* index.ts line 203: /4/find is sent for venue v of the book command.
bookFind(s, v) == [Request(s) EXCEPT !.bookLoop = [pc |-> "find", v |-> v, slot |-> NoSlot, request |-> NoCommit]]

\* The for loop of the book command, entered at venue v; after the last
\* venue "No reservations were booked." ends the action.
bookForVenues(s, v) ==
  IF v <= Len(config.venues) THEN bookFind(s, v) ELSE [s EXCEPT !.bookLoop = DoneCycle]

bookContinue(s) == bookForVenues(s, s.bookLoop.v + 1)

\* index.ts lines 205-234: the /4/find response arrived.
bookAfterFind(s, resp) ==
  LET preferredTime == timesOf(s.bookLoop.v)
      tableTypes == tableTypesOf(s.bookLoop.v)
      slots == slotsOf(resp)
      typed == filterSlotsByTableType(slots, tableTypes)
      filtered == filterSlotsByTime(typed, preferredTime)
      targetSlots == IF Len(filtered) > 0 THEN filtered ELSE typed
  IN  IF Len(slots) = 0 THEN bookContinue(s)
      ELSE IF Len(typed) = 0 THEN bookContinue(s)
      ELSE IF Len(targetSlots) = 0 THEN bookContinue(s)
      ELSE LET found == [s EXCEPT !.slotFound = TRUE]
           IN  IF options.dryRun THEN bookContinue(found)
               ELSE [Request(found) EXCEPT
                       !.bookLoop = [pc |-> "details", v |-> @.v, slot |-> targetSlots[1],
                                      request |-> NoCommit],
                       !.detailsCalled = TRUE]

\* bookReservation within the book command: the /3/details response arrived.
bookAfterDetails(s, resp) ==
  IF ~resp.ok
    THEN bookContinue(s)
    ELSE LET t == [s EXCEPT !.paymentMethodId =
                              refreshPaymentMethod(@, resp.payment_methods)]
         IN  IF resp.book_token = NoBookToken
               THEN bookContinue(t)
               ELSE [Request(t) EXCEPT
                       !.bookLoop = [pc |-> "book", v |-> @.v, slot |-> @.slot,
                                     request |-> bookRequest(t, resp.book_token)],
                       !.commitCalled = TRUE]

\* index.ts lines 236-245: the /3/book response arrived; success is
\* process.exit(0).
bookAfterBook(s, success) ==
  IF success
    THEN [s EXCEPT !.commitSuccesses = @ + 1,
                   !.bookLoop = [pc |-> "booked", v |-> @.v, slot |-> @.slot, request |-> NoCommit]]
    ELSE bookContinue(s)

\* ---------------------------------------------------------------- actions
Frame == UNCHANGED << command, phase, now, tokenFile, authToken, tokenExpiry, config, options, Aside >>

\* Construct with the test of line 48 weakened: a record whose expiry is the
\* current instant is loaded.
Construct_LoadsExpired ==
  /\ phase = "start"
  /\ phase' = "constructed"
  /\ IF tokenFile.state = "ok" /\ tokenFile.token # NoToken /\ tokenFile.expiry >= now
       THEN /\ authToken' = tokenFile.token
            /\ paymentMethodId' = tokenFile.paymentMethodId
            /\ tokenExpiry' = tokenFile.expiry
       ELSE UNCHANGED << authToken, paymentMethodId, tokenExpiry >>
  /\ UNCHANGED << command, now, tokenFile, config, options, isRunning, attemptCount,
                  scheduledTask, cronLive, intervalArmed, cycles, outcome, bookLoop, stopCalled, detailsCalled,
                  commitCalled, commitSuccesses, slotFound, expiredUse, Aside >>

\* new ResyClient(...): loadCachedToken.
Construct ==
  /\ phase = "start"
  /\ phase' = "constructed"
  /\ IF tokenFile.state = "ok" /\ tokenFile.token # NoToken /\ tokenFile.expiry > now
       THEN /\ authToken' = tokenFile.token
            /\ paymentMethodId' = tokenFile.paymentMethodId
            /\ tokenExpiry' = tokenFile.expiry
       ELSE UNCHANGED << authToken, paymentMethodId, tokenExpiry >>
  /\ UNCHANGED << command, now, tokenFile, config, options, isRunning, attemptCount,
                  scheduledTask, cronLive, intervalArmed, cycles, outcome, bookLoop, stopCalled, detailsCalled,
                  commitCalled, commitSuccesses, slotFound, expiredUse, Aside >>

\* Authenticate without the test of line 73: the request is always sent.
Authenticate_Always ==
  /\ phase = "constructed"
  /\ phase' = "authenticating"
  /\ UNCHANGED << command, now, tokenFile, authToken, paymentMethodId, tokenExpiry, config,
                  options, isRunning, attemptCount, scheduledTask, cronLive, intervalArmed,
                  cycles, outcome, bookLoop, stopCalled, detailsCalled, commitCalled, commitSuccesses,
                  slotFound, expiredUse, Aside >>

\* client.authenticate() of the command: returns at once with a token held,
\* else posts /3/auth/password.
Authenticate ==
  /\ phase = "constructed"
  /\ IF authToken # NoToken
       THEN phase' = "ready"
       ELSE phase' = "authenticating"
  /\ UNCHANGED << command, now, tokenFile, authToken, paymentMethodId, tokenExpiry, config,
                  options, isRunning, attemptCount, scheduledTask, cronLive, intervalArmed,
                  cycles, outcome, bookLoop, stopCalled, detailsCalled, commitCalled, commitSuccesses,
                  slotFound, expiredUse, Aside >>

\* The /3/auth/password response.  Accepted: the token is stored and then
\* saved (lines 87-89), and when writing the file throws, the catch of line 93
\* reports a failure with the token already stored.  A failure is
\* process.exit(1) in the command.
AuthReturn ==
  /\ phase = "authenticating"
  /\ \E response \in {"rejected", "accepted"}, shift \in DstShifts, written \in BOOLEAN :
       IF response = "accepted"
         THEN /\ authToken' = "fresh"
              /\ paymentMethodId' = AuthPaymentMethodId
              /\ tokenExpiry' = now + TokenLifetimeHours + shift
              /\ IF written
                   THEN /\ tokenFile' = [state |-> "ok", token |-> "fresh",
                                         paymentMethodId |-> AuthPaymentMethodId,
                                         expiry |-> now + TokenLifetimeHours + shift]
                        /\ phase' = "ready"
                   ELSE /\ tokenFile' \in {tokenFile, UnreadableFile}
                        /\ phase' = "exited"
         ELSE /\ phase' = "exited"
              /\ UNCHANGED << authToken, paymentMethodId, tokenExpiry, tokenFile >>
  /\ UNCHANGED << command, now, config, options, isRunning, attemptCount, scheduledTask,
                  cronLive, intervalArmed, cycles, outcome, bookLoop, stopCalled, detailsCalled, commitCalled,
                  commitSuccesses, slotFound, expiredUse, Aside >>

\* ResyScheduler.snipe: the first cycle at once, then the recurring timer.
snipe ==
  /\ command = "snipe"
  /\ phase = "ready"
  /\ phase' = "sniping"
  /\ LET s0 == [S EXCEPT !.isRunning = TRUE, !.attemptCount = 0]
         s1 == checkAndBook(s0)
         s2 == IF options.intervalSeconds < CronThresholdSeconds
                 THEN [s1 EXCEPT !.intervalArmed = TRUE]
                 ELSE [s1 EXCEPT !.scheduledTask = "task", !.cronLive = TRUE]
     IN  Set(s2)
  /\ UNCHANGED << command, now, tokenFile, authToken, tokenExpiry, config, options, Aside >>

\* A cycle may start only within the bounds of the model.
CanStartCycle ==
  isRunning => /\ attemptCount < MaxAttemptCount
               /\ Cardinality(InFlight(cycles)) < MaxInFlight

\* The setInterval callback, lines 143-149.
IntervalTick ==
  /\ phase = "sniping"
  /\ intervalArmed
  /\ CanStartCycle
  /\ IF ~isRunning
       THEN Set([S EXCEPT !.intervalArmed = FALSE])
       ELSE Set(checkAndBook(S))
  /\ Frame

\* The node-cron task fires: checkAndBook is its callback, line 151.
CronTick ==
  /\ phase = "sniping"
  /\ cronLive
  /\ CanStartCycle
  /\ Set(checkAndBook(S))
  /\ Frame

FindReturn ==
  /\ \E c \in CycleIds, resp \in FindResponses :
       /\ cycles[c].pc = "find"
       /\ Set(afterFind(S, c, resp))
  /\ Frame

\* DetailsReturn with the refreshed payment method saved to .resy-token, as
\* a getBookingDetails that called saveCachedToken after line 211 would.
DetailsReturn_SavesRefresh ==
  /\ \E c \in CycleIds, resp \in DetailsResponses :
       /\ cycles[c].pc = "details"
       /\ Set(afterDetails(S, c, resp))
  /\ tokenFile' = IF paymentMethodId' # paymentMethodId
                    THEN [state |-> "ok", token |-> authToken,
                          paymentMethodId |-> paymentMethodId', expiry |-> tokenExpiry]
                    ELSE tokenFile
  /\ UNCHANGED << command, phase, now, authToken, tokenExpiry, config, options, Aside >>

DetailsReturn ==
  /\ \E c \in CycleIds, resp \in DetailsResponses :
       /\ cycles[c].pc = "details"
       /\ Set(afterDetails(S, c, resp))
  /\ Frame

BookReturn ==
  /\ \E c \in CycleIds, success \in BOOLEAN :
       /\ cycles[c].pc = "book"
       /\ Set(afterBook(S, c, success))
  /\ Frame

\* scheduler.stop() called by the owner of the scheduler.
Stop ==
  /\ phase = "sniping"
  /\ Set(stop(S))
  /\ Frame

\* The action of the book command after authentication: the loop over venues.
book ==
  /\ command = "book"
  /\ phase = "ready"
  /\ phase' = "booking"
  /\ Set(bookForVenues(S, 1))
  /\ UNCHANGED << command, now, tokenFile, authToken, tokenExpiry, config, options, Aside >>

BookCmdFindReturn ==
  /\ bookLoop.pc = "find"
  /\ \E resp \in FindResponses : Set(bookAfterFind(S, resp))
  /\ Frame

BookCmdDetailsReturn ==
  /\ bookLoop.pc = "details"
  /\ \E resp \in DetailsResponses : Set(bookAfterDetails(S, resp))
  /\ Frame

BookCmdBookReturn ==
  /\ bookLoop.pc = "book"
  /\ \E success \in BOOLEAN : Set(bookAfterBook(S, success))
  /\ Frame

\* Wall-clock time passes while the sniper polls; the steps from process start
\* to the call of snipe() follow each other at once.
Tick ==
  /\ phase = "sniping"
  /\ now < MaxNow
  /\ now' = now + ClockStep
  /\ UNCHANGED << command, phase, tokenFile, authToken, paymentMethodId, tokenExpiry,
                  config, options, isRunning, attemptCount, scheduledTask, cronLive,
                  intervalArmed, cycles, outcome, bookLoop, stopCalled, detailsCalled, commitCalled, commitSuccesses, slotFound, expiredUse, Aside >>

\* The commands at process start.
ProgramInit ==
  /\ phase = "start"
  /\ now = 0
  /\ tokenFile \in TokenFiles
  /\ authToken = NoToken
  /\ paymentMethodId = NoPaymentMethod
  /\ tokenExpiry = 0
  /\ \E n \in 0..MaxVenues, p \in Preferences :
       config = [venues |-> SubSeq(AllVenues, 1, n),
                 preferredTimes |-> p.preferredTimes,
                 preferredTableTypes |-> p.preferredTableTypes]
  /\ command \in {"snipe", "book"}
  /\ options \in [intervalSeconds : IntervalChoices,
                  maxAttempts : 0..MaxAttemptsOption,
                  dryRun : BOOLEAN]
  /\ command = "book" => options.intervalSeconds = DefaultInterval /\ options.maxAttempts = 0
  /\ isRunning = FALSE
  /\ attemptCount = 0
  /\ scheduledTask = "none"
  /\ cronLive = FALSE
  /\ intervalArmed = FALSE
  /\ cycles = [c \in CycleIds |-> IdleCycle]
  /\ outcome = Pending
  /\ bookLoop = IdleCycle
  /\ stopCalled = FALSE
  /\ detailsCalled = FALSE
  /\ commitCalled = FALSE
  /\ commitSuccesses = 0
  /\ slotFound = FALSE
  /\ expiredUse = FALSE

Init ==
  /\ ProgramInit
  /\ matcher = NoMatcherCall
  /\ timeCase = NoTimeCase
  /\ oneShot = NoOneShot
  /\ cadence = NoCadence

Next ==
  \/ Construct
  \/ Authenticate
  \/ AuthReturn
  \/ snipe
  \/ IntervalTick
  \/ CronTick
  \/ FindReturn
  \/ DetailsReturn
  \/ BookReturn
  \/ Stop
  \/ book
  \/ BookCmdFindReturn
  \/ BookCmdDetailsReturn
  \/ BookCmdBookReturn

Spec == Init /\ [][Next]_vars

\* The same program with the wall clock advancing while it runs.
NextClock ==
  \/ Next
  \/ Tick

SpecClock == Init /\ [][NextClock]_vars

\* ------------------------------------------------------- the slot filters
\* The slots a venue offers around 19:00 and 19:30, each with its own token.
ProviderSlot(h, m, type, token) ==
  [start |-> << h, m >>, type |-> type, quantity |-> 1, token |-> token]

Candidates ==
  { parseSlot(ProviderSlot(18, 44, "Table", "t1")),
    parseSlot(ProviderSlot(18, 45, "Patio", "t2")),
    parseSlot(ProviderSlot(18, 50, "Table", "t3")),
    parseSlot(ProviderSlot(19, 10, "Bar", "t4")),
    parseSlot(ProviderSlot(19, 15, "Table", "t5")),
    parseSlot(ProviderSlot(19, 45, "Patio", "t6")),
    parseSlot(ProviderSlot(19, 46, "Table", "t7")),
    parseSlot(ProviderSlot(20, 0, "Bar", "t8")) }

\* The lists of at most MaxSlots slots, no slot twice.
SlotLists ==
  { l \in UNION { [1..n -> Candidates] : n \in 0..MaxSlots } :
      \A i, j \in 1..Len(l) : l[i] = l[j] => i = j }

Time1900 == TimeStr(19, 0, "")
Time1930 == TimeStr(19, 30, "")
Time7PM == TimeStr(7, 0, "PM")

PreferredTimesChoices ==
  { Undefined, Some(<< >>), Some(<< Time1900 >>), Some(<< Time7PM >>),
    Some(<< Time1900, Time1930 >>) }

TableTypesChoices ==
  { Undefined, Some(<< >>), Some(<< "Table" >>), Some(<< "Patio", "Table" >>),
    Some(<< "Booth" >>) }

\* client.filterSlotsByTime(slots, preferredTimes) is called and returns.
FilterByTime ==
  /\ matcher.pc = "args"
  /\ matcher' = [matcher EXCEPT
                   !.pc = "byTime",
                   !.result = filterSlotsByTime(matcher.slots, matcher.preferredTimes)]
  /\ UNCHANGED << Program, timeCase, oneShot, cadence >>

\* client.filterSlotsByTableType(slots, tableTypes) is called and returns.
FilterByTableType ==
  /\ matcher.pc = "args"
  /\ matcher' = [matcher EXCEPT
                   !.pc = "byType",
                   !.result = filterSlotsByTableType(matcher.slots, matcher.tableTypes)]
  /\ UNCHANGED << Program, timeCase, oneShot, cadence >>

\* A process that has done nothing yet: no record on disk, no venues.
ProgramIdle ==
  /\ ProgramInit
  /\ command = "snipe"
  /\ tokenFile.state = "missing"
  /\ Len(config.venues) = 0
  /\ config.preferredTimes = Undefined
  /\ options = [intervalSeconds |-> DefaultInterval, maxAttempts |-> 0, dryRun |-> FALSE]

InitMatcher ==
  /\ ProgramIdle
  /\ matcher \in [pc : {"args"}, slots : SlotLists, preferredTimes : PreferredTimesChoices,
                   tableTypes : TableTypesChoices, result : {<< >>}]
  /\ timeCase = NoTimeCase
  /\ oneShot = NoOneShot
  /\ cadence = NoCadence

NextMatcher ==
  \/ FilterByTime
  \/ FilterByTableType

SpecMatcher == InitMatcher /\ [][NextMatcher]_vars

\* ---------------------------------------------------------- normalizeTime
HoursPerDay == 24
MinutesPerHour == 60

\* A slot starting at h:m is parsed, and its display string and the 24-hour
\* string of the same time are normalized.
NormalizeBoth ==
  /\ timeCase.pc = "start"
  /\ LET slot == parseSlot(ProviderSlot(timeCase.h, timeCase.m, "Table", "t"))
     IN  timeCase' = [timeCase EXCEPT
                        !.pc = "normalized",
                        !.display = slot.time,
                        !.fromDisplay = normalizeTime(slot.time),
                        !.fromMilitary = normalizeTime(TimeStr(timeCase.h, timeCase.m, ""))]
  /\ UNCHANGED << Program, matcher, oneShot, cadence >>

InitTime ==
  /\ ProgramIdle
  /\ matcher = NoMatcherCall
  /\ timeCase \in [pc : {"start"}, h : 0..(HoursPerDay - 1), m : 0..(MinutesPerHour - 1),
                    display : {TimeStr(0, 0, "")}, fromDisplay : {0}, fromMilitary : {0}]
  /\ oneShot = NoOneShot
  /\ cadence = NoCadence

NextTime == NormalizeBoth

SpecTime == InitTime /\ [][NextTime]_vars

\* ------------------------------------- parseScheduledTime, scheduleAtTime
MinLeadMs == 1000
SecondsPerMinute == 60
MsPerSecond == 1000
HourMs == MinutesPerHour * SecondsPerMinute * MsPerSecond
DayMs == HoursPerDay * HourMs

\* The longest delay setTimeout honours, 2^31 - 1 ms: a longer one is taken as 1.
TimeoutMaxMs == 2147483647

\* Instants are counted from the local midnight of the day of the call, as
\* whole days of DayMs plus a rest in ms: 25 days of ms exceed 32-bit
\* integers, as they exceed the delay of setTimeout.
\* The time span of days whole days and ms is longer than k ms.
LongerThan(days, ms, k) ==
  IF days > TimeoutMaxMs \div DayMs THEN TRUE ELSE ms > k - days * DayMs

\* Clock readings of the model, in ms, and how far the clock moves at a time.
StartInstants == {0, 500}
TargetOffsets == {-1000, 0, 500, 999, 1000, 1001, 2000}
ClockSteps == {1, 500}

\* A --start-at string: which of the patterns of parseScheduledTime it
\* matches, and its fields (day counts days from today).
ScheduleString(format, day, h, m, sec, ms) ==
  [format |-> format, day |-> day, h |-> h, m |-> m, sec |-> sec, ms |-> ms]

ScheduleStrings ==
  { ScheduleString("time", 0, 0, 0, 0, 0),          \* "00:00"
    ScheduleString("time", 0, 0, 0, 1, 0),          \* "00:00:01"
    ScheduleString("time", 0, 0, 0, 2, 0),          \* "00:00:02"
    ScheduleString("time", 0, 24, 30, 0, 0),        \* "24:30"
    ScheduleString("datetime", 0, 0, 0, 2, 0),      \* today's date, " 00:00:02"
    ScheduleString("datetime", -1, 23, 59, 0, 0),   \* yesterday's date, " 23:59"
    ScheduleString("datetime", 25, 0, 1, 0, 0),     \* the date 25 days ahead, " 00:01"
    ScheduleString("iso", 0, 0, 0, 1, 500),         \* today's date, "T00:00:01.500"
    ScheduleString("malformed", 0, 0, 0, 0, 0) }    \* "tonight"

TimeOfDayMs(i) ==
  ((i.h * MinutesPerHour + i.m) * SecondsPerMinute + i.sec) * MsPerSecond + i.ms

\* new Date(year, month, day, h, m, s) for the local day that is days after
\* today: fields out of range roll over, and local clocks are shifted by
\* shift hours in the night that follows today.
LocalDate(days, tod, shift) ==
  IF days < 0
    THEN [targetDays |-> 0, target |-> days * DayMs + tod]
    ELSE [targetDays |-> days,
          target |-> tod + (IF days >= 1 \/ tod >= DayMs THEN shift * HourMs ELSE 0)]

\* parseScheduledTime with the throw of line 231 replaced by a default of
\* MinLeadMs from now.
parseScheduledTime_NoThrow(o) ==
  LET i == o.input
      at == LocalDate(i.day, TimeOfDayMs(i), o.shift)
  IN  CASE i.format \in {"iso", "datetime"} ->
             [o EXCEPT !.pc = "created", !.target = at.target, !.targetDays = at.targetDays]
        [] i.format = "time" ->
             IF at.target <= o.now /\ at.targetDays = 0
               THEN [o EXCEPT !.pc = "created",
                              !.target = LocalDate(1, TimeOfDayMs(i), o.shift).target,
                              !.targetDays = 1]
               ELSE [o EXCEPT !.pc = "created", !.target = at.target,
                              !.targetDays = at.targetDays]
        [] OTHER -> [o EXCEPT !.pc = "created", !.target = o.now + MinLeadMs]

\* parseScheduledTime(timeString): the Date of an ISO string, of a full
\* date and time, or of a bare time (today, and tomorrow when that is not
\* after now); anything else throws.
parseScheduledTime(o) ==
  LET i == o.input
      at == LocalDate(i.day, TimeOfDayMs(i), o.shift)
  IN  CASE i.format \in {"iso", "datetime"} ->
             [o EXCEPT !.pc = "created", !.target = at.target, !.targetDays = at.targetDays]
        [] i.format = "time" ->
             IF at.target <= o.now /\ at.targetDays = 0
               THEN [o EXCEPT !.pc = "created",
                              !.target = LocalDate(1, TimeOfDayMs(i), o.shift).target,
                              !.targetDays = 1]
               ELSE [o EXCEPT !.pc = "created", !.target = at.target,
                              !.targetDays = at.targetDays]
        [] OTHER -> [o EXCEPT !.pc = "invalid"]

\* setTimeout(callback, delay): the instant the timer is due.  A delay below
\* 1 ms or above TimeoutMaxMs is taken as 1 ms.
setTimeout(o, days, ms) ==
  IF LongerThan(days, ms, TimeoutMaxMs) \/ ~LongerThan(days, ms, 0)
    THEN [o EXCEPT !.pc = "waiting", !.calledAt = o.now, !.timer = o.now + 1, !.timerDays = 0]
    ELSE [o EXCEPT !.pc = "waiting", !.calledAt = o.now, !.timer = o.now + ms,
                   !.timerDays = days]

\* scheduleAtTime with the validation of lines 247-252 left out.
scheduleAtTime_NoValidation(o) ==
  setTimeout(o, o.targetDays, o.target - o.now)

\* scheduleAtTime(targetTime, callback): throws, or arms the one-shot timer,
\* whose due instant is kept in timer and timerDays.
scheduleAtTime(o) ==
  LET msUntilExecution == o.target - o.now
  IN  IF ~LongerThan(o.targetDays, msUntilExecution, MinLeadMs - 1)
        THEN [o EXCEPT !.pc = "failed", !.calledAt = o.now]
        ELSE setTimeout(o, o.targetDays, msUntilExecution)

\* executeWithSchedule, line 74: the string is parsed; a throw is caught at
\* line 83 and ends the process.
ParseScheduledTime ==
  /\ oneShot.pc = "string"
  /\ oneShot' = parseScheduledTime(oneShot)
  /\ UNCHANGED << Program, matcher, timeCase, cadence >>

ScheduleAtTime ==
  /\ oneShot.pc = "created"
  /\ oneShot' = scheduleAtTime(oneShot)
  /\ UNCHANGED << Program, matcher, timeCase, cadence >>

\* The setTimeout callback of lines 271-274 runs: the action is invoked.
\* The clock of the model stays within the day of the call.
TimerFires ==
  /\ oneShot.timer # NoTimer
  /\ oneShot.timerDays = 0
  /\ oneShot.now >= oneShot.timer
  /\ oneShot' = [oneShot EXCEPT !.pc = "fired", !.timer = NoTimer, !.invoked = @ + 1]
  /\ UNCHANGED << Program, matcher, timeCase, cadence >>

\* The caller of scheduleAtTime wants the pending action cancelled.  The
\* function returns void and does not keep the Timeout of setTimeout, so
\* nothing the caller holds reaches the timer: the request is recorded with
\* the position it was made at, and the timer stays as it is.
CancelRequest ==
  /\ oneShot.pc \in {"waiting", "fired"}
  /\ oneShot.cancelledAt = "never"
  /\ oneShot' = [oneShot EXCEPT !.cancelledAt = oneShot.pc]
  /\ UNCHANGED << Program, matcher, timeCase, cadence >>

\* Time passes after the call.
ClockAdvances ==
  /\ oneShot.pc \in {"invalid", "failed", "waiting", "fired"}
  /\ \E step \in ClockSteps :
       /\ oneShot.now + step <= MaxClockMs
       /\ oneShot' = [oneShot EXCEPT !.now = @ + step]
  /\ UNCHANGED << Program, matcher, timeCase, cadence >>

InitOneShot ==
  /\ ProgramIdle
  /\ matcher = NoMatcherCall
  /\ timeCase = NoTimeCase
  /\ cadence = NoCadence
  /\ \/ \E start \in StartInstants, offset \in TargetOffsets :
          oneShot = [NoOneShot EXCEPT !.pc = "created", !.now = start,
                                      !.target = start + offset]
     \/ \E start \in StartInstants, string \in ScheduleStrings, shift \in DstShifts :
          oneShot = [NoOneShot EXCEPT !.pc = "string", !.now = start,
                                      !.input = string, !.shift = shift]

NextOneShot ==
  \/ ParseScheduledTime
  \/ ScheduleAtTime
  \/ TimerFires
  \/ CancelRequest
  \/ ClockAdvances

SpecOneShot == InitOneShot /\ [][NextOneShot]_vars

\* ------------------------------------------------- the timing of cycles
\* Instants are seconds counted from the top of the hour the run starts in.
SecondsPerHour == MinutesPerHour * SecondsPerMinute
StartSeconds == {0, 1, 59, 3350, 3599}
CadenceIntervals == {10, 30, 59, 60, 90, 120, 420}

\* The step of the cron expression with the interval rounded up to minutes.
cronMinutes_Ceiling(intervalSeconds) ==
  (intervalSeconds + SecondsPerMinute - 1) \div SecondsPerMinute

\* The step n of the cron expression "*/n * * * *" of line 139.
cronMinutes(intervalSeconds) ==
  IF intervalSeconds \div SecondsPerMinute >= 1 THEN intervalSeconds \div SecondsPerMinute ELSE 1

\* node-cron runs the task of "*/n * * * *" at second 0 of every minute of
\* the hour that is a multiple of n.
CronMatches(t, n) ==
  /\ t % SecondsPerMinute = 0
  /\ ((t \div SecondsPerMinute) % MinutesPerHour) % n = 0

\* The first instant after t at which the cron expression matches.
nextCron(t, n) ==
  CHOOSE u \in (t + 1)..(t + SecondsPerHour) :
    /\ CronMatches(u, n)
    /\ \A w \in (t + 1)..(u - 1) : ~CronMatches(w, n)

cycleAt(k, t) ==
  [k EXCEPT !.pc = "running", !.gap = t - k.last, !.last = t, !.fires = @ + 1]

\* snipe(): the first checkAndBook() of line 136, and the timer of lines
\* 142-152 is created.
SnipeStarts ==
  /\ cadence.pc = "created"
  /\ cadence' = [cadence EXCEPT !.pc = "running", !.last = cadence.startedAt, !.fires = 1]
  /\ UNCHANGED << Program, matcher, timeCase, oneShot >>

\* The setInterval callback of lines 143-148 runs checkAndBook.
IntervalFires ==
  /\ cadence.pc = "running"
  /\ cadence.intervalSeconds < CronThresholdSeconds
  /\ cadence.fires < MaxFirings
  /\ cadence' = cycleAt(cadence, cadence.last + cadence.intervalSeconds)
  /\ UNCHANGED << Program, matcher, timeCase, oneShot >>

\* The task of cron.schedule (line 151) runs checkAndBook.
CronFires ==
  /\ cadence.pc = "running"
  /\ cadence.intervalSeconds >= CronThresholdSeconds
  /\ cadence.fires < MaxFirings
  /\ cadence' = cycleAt(cadence, nextCron(cadence.last, cronMinutes(cadence.intervalSeconds)))
  /\ UNCHANGED << Program, matcher, timeCase, oneShot >>

InitCadence ==
  /\ ProgramIdle
  /\ matcher = NoMatcherCall
  /\ timeCase = NoTimeCase
  /\ oneShot = NoOneShot
  /\ \E start \in StartSeconds, interval \in CadenceIntervals :
       cadence = [NoCadence EXCEPT !.pc = "created", !.intervalSeconds = interval,
                                   !.startedAt = start]

NextCadence ==
  \/ SnipeStarts
  \/ IntervalFires
  \/ CronFires

SpecCadence == InitCadence /\ [][NextCadence]_vars

\* ------------------------------------------------------------------ claims
\* A request /3/book leaves in this step.
CommitSent ==
  \/ \E c \in CycleIds : cycles[c].pc = "details" /\ cycles'[c].pc = "book"
  \/ bookLoop.pc = "details" /\ bookLoop'.pc = "book"

\* C1: in a snipe run with an interval shorter than 60 seconds at most one
\* cycle is in progress (awaiting a provider call) at any time.
C1_SingleFlight ==
  (command = "snipe" /\ options.intervalSeconds < CronThresholdSeconds)
    => Cardinality(InFlight(cycles)) <= 1

\* C2: in a snipe run that is not a dry run, once a submitCommit call has
\* returned success no other commit succeeds, no further submitCommit call is
\* issued and no further poll cycle starts.
C2_OneCommit ==
  [][(command = "snipe" /\ ~options.dryRun /\ commitSuccesses >= 1)
       => /\ commitSuccesses' = commitSuccesses
          /\ ~CommitSent
          /\ attemptCount' = attemptCount]_vars

\* C3: with maxAttempts = N >= 1 and a provider that never returns a matching
\* candidate, the run that stops on exhaustion has counted exactly N attempts
\* and made no fetchCommitDetails or submitCommit call.
C3_ExhaustedAtN ==
  (command = "snipe" /\ options.maxAttempts >= 1 /\ ~slotFound
     /\ outcome = NullResult("exhausted"))
    => /\ attemptCount = options.maxAttempts
       /\ ~detailsCalled
       /\ ~commitCalled

\* C4: with maxAttempts = N configured the attempt counter is at most N in
\* every reachable state.
C4_AttemptBound ==
  (command = "snipe" /\ options.maxAttempts # 0) => attemptCount <= options.maxAttempts

\* C5: in dry-run mode neither fetchCommitDetails nor submitCommit is ever
\* called and the run never reaches Success, in snipe and in book.
C5_DryRunNeverCommits ==
  options.dryRun
    => /\ ~detailsCalled
       /\ ~commitCalled
       /\ commitSuccesses = 0
       /\ outcome.kind # "result"
       /\ bookLoop.pc \notin {"details", "book", "booked"}
       /\ \A c \in CycleIds : cycles[c].pc \notin {"details", "book"}

\* A dry run found a matching candidate and went on polling.
C5_Witness ==
  /\ command = "snipe"
  /\ options.dryRun
  /\ slotFound
  /\ attemptCount >= 2

\* The commit of cycle c succeeds in this step.
CommitSucceeds(c) ==
  /\ cycles[c].pc = "book"
  /\ cycles'[c] # cycles[c]
  /\ commitSuccesses' = commitSuccesses + 1

\* C6: within one poll cycle the Targets are handled in the caller-supplied
\* order, one at a time: a cycle moves from find to details to commit within
\* a Target, goes to the next Target only from the Target just before it,
\* ends only after the last Target or on a successful commit, and makes no
\* provider call for a later Target once a commit of it has succeeded.
C6_TargetOrder ==
  [][\A c \in CycleIds :
       LET a == cycles[c]
           b == cycles'[c]
       IN  /\ (a.pc = "idle" /\ b # a)
                => \/ b.pc = "find" /\ b.v = 1
                   \/ b.pc = "done" /\ Len(config.venues) = 0
           /\ (a.pc \in {"find", "details", "book"} /\ b # a)
                => /\ b.pc # "idle"
                   /\ b.pc # "done"
                        => \/ b.v = a.v /\ << a.pc, b.pc >> \in { << "find", "details" >>,
                                                                    << "details", "book" >> }
                           \/ b.v = a.v + 1 /\ b.pc = "find"
                   /\ b.pc = "done" => (a.v = Len(config.venues) \/ CommitSucceeds(c))
                   /\ CommitSucceeds(c) => b.pc = "done"]_vars

\* The first Target's commit succeeded while a second Target remained, and
\* the cycle ended there.
C6_Witness ==
  /\ command = "snipe"
  /\ Len(config.venues) = 2
  /\ outcome.kind = "result"
  /\ outcome.venue = 1
  /\ attemptCount = 1
  /\ cycles[1].pc = "done"

\* C7: when in a cycle the first Target yields no matching candidate (as it
\* must under the preferences LunchAtTable) and the commit of the second
\* Target's candidate succeeds, the run returns the Booking Result of that
\* candidate, and once a commit has succeeded the attempt counter never
\* increases.
C7_SecondTargetWins ==
  [][/\ \A c \in CycleIds :
          (/\ command = "snipe"
           /\ config.preferredTimes = LunchAtTable.preferredTimes
           /\ config.preferredTableTypes = LunchAtTable.preferredTableTypes
           /\ cycles[c].v = 2
           /\ CommitSucceeds(c))
            => outcome' = BookingResult(cycles[c].slot, 2)
     /\ (command = "snipe" /\ commitSuccesses >= 1) => attemptCount' = attemptCount]_vars

\* C8: in a poll cycle, when the category-filtered list of a Target is
\* non-empty and the time filter returns an empty list, the first candidate
\* of the category-filtered list is selected for booking.
C8_FallbackToUnranked ==
  [][\A c \in CycleIds, resp \in FindResponses :
       (command = "snipe" /\ ~options.dryRun /\ cycles[c].pc = "find")
         => LET typed == filterSlotsByTableType(slotsOf(resp), tableTypesOf(cycles[c].v))
                filteredSlots == filterSlotsByTime(typed, timesOf(cycles[c].v))
            IN  (Len(typed) > 0 /\ Len(filteredSlots) = 0 /\ Set(afterFind(S, c, resp)))
                  => /\ cycles'[c].pc = "details"
                     /\ cycles'[c].slot = typed[1]]_vars

C10_UsedOnlyUnexpired == ~expiredUse

\* No /4/find, /3/details or /3/book request has left the process.
NoRequests ==
  /\ \A c \in CycleIds : cycles[c].pc = "idle"
  /\ bookLoop.pc = "idle"
  /\ ~detailsCalled
  /\ ~commitCalled

\* The persisted record is one loadCachedToken accepts at the current time.
CacheUsable == tokenFile.state = "ok" /\ tokenFile.expiry > now

\* C11: a cached credential that exists and is unexpired at construction is
\* loaded, and authenticate() then returns success without a provider call;
\* when the record is missing, unreadable or its expiry is not after the
\* current time, no credential is loaded and authenticate() posts the
\* identity to the provider.
C11_CachedOrProvider ==
  [][/\ (phase = "start" /\ phase' = "constructed")
          => IF CacheUsable
               THEN authToken' = tokenFile.token /\ authToken' # NoToken
               ELSE authToken' = NoToken
     /\ (phase = "constructed" /\ phase' # phase)
          => IF CacheUsable
               THEN phase' = "ready" /\ authToken' = tokenFile.token
               ELSE phase' = "authenticating" /\ authToken = NoToken]_vars

\* authenticate() has returned success on the cached credential.
C11_Witness ==
  /\ phase = "ready"
  /\ authToken = "cached"
  /\ tokenFile.token = "cached"

\* C12: after authenticate() succeeds via the provider the Session holds the
\* returned token and settlement identifier, and the persisted record is
\* that token, that identifier and an expiry 24 hours after now, and
\* nothing of the record it replaces.
C12_SavedRecord ==
  [][(phase = "authenticating" /\ phase' = "ready")
       => /\ authToken' = "fresh"
          /\ paymentMethodId' = AuthPaymentMethodId
          /\ tokenFile' = [state |-> "ok", token |-> authToken',
                           paymentMethodId |-> paymentMethodId',
                           expiry |-> now + TokenLifetimeHours]]_vars

\* C13: a failed authenticate() leaves the token absent and the persisted
\* record as it was, and while no credential is held no find, details or
\* commit request is sent.
C13_NoCredentialNoCalls ==
  [][/\ (phase = "authenticating" /\ phase' = "exited")
          => /\ authToken' = NoToken
             /\ tokenFile' = tokenFile
     /\ authToken' = NoToken => NoRequests']_vars

\* C19: no candidate with quantity <= 0 is selected as the best candidate or
\* passed to fetchCommitDetails or submitCommit, in snipe or in book.
C19_PositiveQuantity ==
  /\ \A c \in CycleIds :
       cycles[c].pc \in {"details", "book"} => cycles[c].slot.quantity > 0
  /\ bookLoop.pc \in {"details", "book", "booked"} => bookLoop.slot.quantity > 0
  /\ outcome.kind = "result" => outcome.slot.quantity > 0

\* ------------------------------------------------- claims on the filters
\* Minutes since midnight of a time string, from the clock face.
MinutesOfDay(t) ==
  IF t.p = ""
    THEN 60 * t.h + t.m
    ELSE 60 * ((t.h % 12) + (IF t.p = "PM" THEN 12 ELSE 0)) + t.m

\* The least distance of a slot to a preferred time of the call.
Distance(slot) ==
  LET D == { Abs(MinutesOfDay(slot.time) - MinutesOfDay(matcher.preferredTimes.list[i])) :
               i \in 1..Len(matcher.preferredTimes.list) }
  IN  CHOOSE d \in D : \A e \in D : d <= e

\* The place of a slot in the list passed to the filter.
Position(x) == CHOOSE k \in 1..Len(matcher.slots) : matcher.slots[k] = x

Elements(l) == { l[i] : i \in 1..Len(l) }

\* l is the sublist of the argument list made of the slots in set K.
IsSublistOf(l, K) ==
  /\ Elements(l) = K
  /\ Len(l) = Cardinality(K)
  /\ \A i, j \in 1..Len(l) : i < j => Position(l[i]) < Position(l[j])

\* The time filter returned from a call with a non-empty preferred list.
TimeFiltered ==
  /\ matcher.pc = "byTime"
  /\ matcher.preferredTimes.defined
  /\ Len(matcher.preferredTimes.list) > 0

\* C14: with a non-empty preferred-times list, the time filter returns
\* exactly the input candidates whose least absolute distance to a preferred
\* time is at most 15 minutes, before or after it alike.
C14_WithinTolerance ==
  TimeFiltered
    => /\ Elements(matcher.result) = { x \in Elements(matcher.slots) : Distance(x) <= 15 }
       /\ Len(matcher.result) = Cardinality(Elements(matcher.result))

\* Slots 15 minutes before 19:00 and 15 and 16 minutes after 19:30 were
\* passed: the two at 15 minutes are kept, the one at 16 is dropped.
C14_Witness ==
  /\ TimeFiltered
  /\ Len(matcher.preferredTimes.list) = 2
  /\ { MinutesOfDay(x.time) : x \in Elements(matcher.slots) } = {1125, 1185, 1186}
  /\ { MinutesOfDay(x.time) : x \in Elements(matcher.result) } = {1125, 1185}

\* C15: the list the time filter returns is in ascending order of distance,
\* candidates of equal distance in the order they were passed in; for
\* preferred times 19:00 and 19:30 and candidates 18:50, 19:10, 20:00 it is
\* the two candidates of distance 10 without 20:00.
C15_RankedStable ==
  TimeFiltered
    => /\ \A i, j \in 1..Len(matcher.result) :
            i < j => LET a == matcher.result[i]
                         b == matcher.result[j]
                     IN  \/ Distance(a) < Distance(b)
                         \/ Distance(a) = Distance(b) /\ Position(a) < Position(b)
       /\ ( /\ matcher.preferredTimes = Some(<< Time1900, Time1930 >>)
            /\ [i \in 1..Len(matcher.slots) |-> MinutesOfDay(matcher.slots[i].time)]
                 = << 1130, 1150, 1200 >> )
            => [i \in 1..Len(matcher.result) |-> MinutesOfDay(matcher.result[i].time)]
                 = << 1130, 1150 >>

\* A slot of distance 10 passed in after one of distance 15 and before
\* another of distance 10 comes out first, the tie in the order passed in.
C15_Witness ==
  /\ TimeFiltered
  /\ matcher.preferredTimes = Some(<< Time1900, Time1930 >>)
  /\ [i \in 1..Len(matcher.slots) |-> MinutesOfDay(matcher.slots[i].time)]
       = << 1125, 1150, 1130 >>
  /\ [i \in 1..Len(matcher.result) |-> MinutesOfDay(matcher.result[i].time)]
       = << 1150, 1130, 1125 >>

\* C16: with the preferred-times list absent or empty the time filter
\* returns the list it was passed: the same slots in the same order.
C16_NoPreferenceIdentity ==
  (/\ matcher.pc = "byTime"
   /\ ~matcher.preferredTimes.defined \/ Len(matcher.preferredTimes.list) = 0)
    => matcher.result = matcher.slots

\* Three slots not in order of time came back as passed, from a call with an
\* empty list.
C16_Witness ==
  /\ matcher.pc = "byTime"
  /\ matcher.preferredTimes = Some(<< >>)
  /\ Len(matcher.result) = 3
  /\ MinutesOfDay(matcher.result[1].time) > MinutesOfDay(matcher.result[2].time)

\* C17: the category filter returns the input candidates whose type is in
\* the requested set, in their original order, and the input unchanged when
\* the requested set is empty or absent.
C17_CategoryFilter ==
  matcher.pc = "byType"
    => IF ~matcher.tableTypes.defined \/ Len(matcher.tableTypes.list) = 0
         THEN matcher.result = matcher.slots
         ELSE IsSublistOf(matcher.result,
                          { x \in Elements(matcher.slots) :
                              \E i \in 1..Len(matcher.tableTypes.list) :
                                x.type = matcher.tableTypes.list[i] })

\* Of a Table, a Bar and a Patio slot the Table and the Patio slot are kept.
C17_Witness ==
  /\ matcher.pc = "byType"
  /\ matcher.tableTypes = Some(<< "Patio", "Table" >>)
  /\ [i \in 1..Len(matcher.slots) |-> matcher.slots[i].type] = << "Table", "Bar", "Patio" >>
  /\ [i \in 1..Len(matcher.result) |-> matcher.result[i].type] = << "Table", "Patio" >>

\* C18: for every hour h in 0..23 and minute m in 0..59 the 12-hour display
\* string of a start time and its 24-hour string normalize to 60 * h + m.
C18_NormalizeAgrees ==
  timeCase.pc = "normalized"
    => /\ timeCase.fromDisplay = 60 * timeCase.h + timeCase.m
       /\ timeCase.fromMilitary = 60 * timeCase.h + timeCase.m

\* 00:05 is displayed as 12:05 AM and normalizes to 5.
C18_Witness ==
  /\ timeCase.pc = "normalized"
  /\ timeCase.h = 0
  /\ timeCase.display = TimeStr(12, 5, "AM")
  /\ timeCase.fromDisplay = 5

\* C20: scheduleAtTime fails exactly when the target is less than 1000 ms
\* after the time of the call; a failed call arms no timer and its action is
\* never invoked.
C20_PastTargetFails ==
  oneShot.pc \in {"failed", "waiting", "fired"}
    => /\ (oneShot.targetDays = 0 /\ oneShot.target - oneShot.calledAt < 1000)
            <=> (oneShot.pc = "failed" /\ oneShot.timer = NoTimer /\ oneShot.invoked = 0)
       /\ (oneShot.target - oneShot.calledAt = 500) => oneShot.pc = "failed"
       /\ (oneShot.target - oneShot.calledAt = 2000) => oneShot.pc # "failed"

\* A call with a target 999 ms ahead failed, and a second after the target
\* the action has still not been invoked.
C20_Witness ==
  /\ oneShot.pc = "failed"
  /\ oneShot.target - oneShot.calledAt = 999
  /\ oneShot.now >= oneShot.target + 1000
  /\ oneShot.invoked = 0

\* C21: after a successful scheduleAtTime the action is invoked once at
\* most, and it has not been invoked at any time before the target instant.
C21_OnceNotBeforeTarget ==
  /\ oneShot.invoked <= 1
  /\ oneShot.invoked > 0
       => ~LongerThan(oneShot.targetDays, oneShot.target - oneShot.now, 0)

\* C22: when cancellation was requested while the timer was pending, the
\* action is never invoked.
C22_CancelPreventsAction ==
  oneShot.cancelledAt = "waiting" => oneShot.invoked = 0

\* C23: for a bare HH:MM[:SS] string the parser returns an instant strictly
\* after the current time and at most 24 hours after it.
C23_WithinOneDay ==
  (oneShot.input.format = "time" /\ oneShot.pc = "created")
    => /\ LongerThan(oneShot.targetDays, oneShot.target - oneShot.now, 0)
       /\ ~LongerThan(oneShot.targetDays, oneShot.target - oneShot.now, 24 * 3600000)

\* The string matches none of the patterns of the parser.
Malformed == oneShot.input.format = "malformed"

\* The target is less than one second after the time of the call.
TooSoon == oneShot.targetDays = 0 /\ oneShot.target - oneShot.calledAt < 1000

GoesOn(c) ==
  IF cycles[c].v < Len(config.venues)
    THEN cycles'[c] = [pc |-> "find", v |-> cycles[c].v + 1, slot |-> NoSlot,
                       request |-> NoCommit]
    ELSE /\ cycles'[c] = DoneCycle
         /\ (options.maxAttempts # 0 /\ attemptCount >= options.maxAttempts)
              => (stopCalled' /\ ~isRunning' /\ outcome'.kind # "pending")

\* The handling of the venue of cycle c ends in this step without a booking.
EndsWithoutBooking(c) ==
  /\ cycles'[c] # cycles[c]
  /\ \/ cycles[c].pc = "find" /\ cycles'[c].pc # "details"
     \/ cycles[c].pc = "details" /\ cycles'[c].pc # "book"
     \/ cycles[c].pc = "book" /\ commitSuccesses' = commitSuccesses

\* C26: when the handling of a target fails in a cycle (no slots after a
\* failed find, null details, an exception, a rejected commit), the cycle
\* goes on with the next target of the list, and after the last target the
\* max attempts check runs.
C26_FailureContinues ==
  [][\A c \in CycleIds : EndsWithoutBooking(c) => GoesOn(c)]_vars

\* The commit for the first of two targets was rejected and the same cycle
\* has asked for the slots of the second.
C26_Witness ==
  /\ attemptCount = 1
  /\ commitCalled
  /\ commitSuccesses = 0
  /\ cycles[1].pc = "find"
  /\ cycles[1].v = 2

\* The settlement identifier after a details response: the default method,
\* else the first listed, else the one held.
SettlementId(methods, held) ==
  IF \E i \in 1..Len(methods) : methods[i].is_default
    THEN LET first == CHOOSE i \in 1..Len(methods) :
                        methods[i].is_default /\ \A j \in 1..(i - 1) : ~methods[j].is_default
         IN  methods[first].id
    ELSE IF Len(methods) > 0 THEN methods[1].id ELSE held

\* C27: a /3/book request leaves only on a details response that was
\* received for the selected slot in the same attempt; it carries the book
\* token of that response, and the settlement identifier it is built with
\* is the one that response refreshed.  When the details are null, no /3/book request leaves and
\* the attempt has failed: the cycle goes on.
C27_CommitFollowsDetails ==
  [][/\ \A c \in CycleIds :
          /\ (cycles'[c].pc = "book" /\ cycles'[c] # cycles[c])
               => /\ cycles[c].pc = "details"
                  /\ cycles'[c].slot = cycles[c].slot
                  /\ cycles'[c].v = cycles[c].v
          /\ \A resp \in DetailsResponses :
               (/\ cycles[c].pc = "details"
                /\ cycles'[c] # cycles[c]
                /\ Set(afterDetails(S, c, resp)))
                 => IF resp.ok /\ resp.book_token # NoBookToken
                      THEN /\ cycles'[c].pc = "book"
                           /\ cycles'[c].request.book_token = resp.book_token
                           /\ paymentMethodId' =
                                SettlementId(resp.payment_methods, paymentMethodId)
                      ELSE /\ commitCalled' = commitCalled
                           /\ GoesOn(c)
     /\ (bookLoop'.pc = "book" /\ bookLoop' # bookLoop)
          => /\ bookLoop.pc = "details"
             /\ bookLoop'.slot = bookLoop.slot
     /\ \A resp \in DetailsResponses :
          (bookLoop.pc = "details" /\ bookLoop'.pc = "book" /\ Set(bookAfterDetails(S, resp)))
            => /\ resp.ok
               /\ bookLoop'.request.book_token = resp.book_token
               /\ paymentMethodId' =
                    SettlementId(resp.payment_methods, paymentMethodId)]_vars

\* The /3/book request of the only cycle is in flight, built with the
\* default payment method of the details response and not with the one
\* authentication gave.
C27_Witness ==
  /\ attemptCount = 1
  /\ cycles[1].pc = "book"
  /\ cycles[1].request.book_token = "bt1"
  /\ authToken = "fresh"
  /\ paymentMethodId = 8

\* The slot ranked first for venue v in a /4/find response.
TopRanked(resp, v, slot) ==
  LET ranked == filterSlotsByTime(filterSlotsByTableType(slotsOf(resp), tableTypesOf(v)),
                                  timesOf(v))
  IN  Len(ranked) > 0 /\ slot = ranked[1]

\* C28: within a cycle a /4/find request is sent only for the venue after
\* the one handled before, a /3/details request only on the find response of
\* the same venue and for the slot ranked first, a /3/book request only on
\* the details response for that slot; a finished cycle sends nothing more.
C28_OneTryPerTarget ==
  [][\A c \in CycleIds :
       cycles'[c] # cycles[c]
         => /\ cycles[c].pc # "done"
            /\ cycles'[c].pc = "find" => cycles'[c].v = cycles[c].v + 1
            /\ cycles'[c].pc = "details"
                 => /\ cycles[c].pc = "find"
                    /\ cycles'[c].v = cycles[c].v
                    /\ \E resp \in FindResponses :
                         TopRanked(resp, cycles[c].v, cycles'[c].slot)
            /\ cycles'[c].pc = "book"
                 => /\ cycles[c].pc = "details"
                    /\ cycles'[c].v = cycles[c].v
                    /\ cycles'[c].slot = cycles[c].slot]_vars

\* The first cycle ended after a rejected commit, and the second cycle is
\* booking for the first target again.
C28_Witness ==
  /\ attemptCount = 2
  /\ cycles[1].pc = "done"
  /\ commitCalled
  /\ commitSuccesses = 0
  /\ cycles[2].pc = "details"
  /\ cycles[2].v = 1

\* C29: with the running flag false, a cycle in progress still ends only
\* after its last target or with a successful commit, and a details response
\* with a book token still makes it send /3/book.
C29_StopDoesNotInterrupt ==
  [][\A c \in CycleIds :
       (~isRunning /\ cycles'[c] # cycles[c])
         => /\ cycles'[c].pc = "done"
                 => \/ cycles[c].v = Len(config.venues)
                    \/ commitSuccesses' = commitSuccesses + 1
            /\ \A resp \in DetailsResponses :
                 (/\ cycles[c].pc = "details"
                  /\ resp.ok
                  /\ resp.book_token # NoBookToken
                  /\ Set(afterDetails(S, c, resp)))
                   => cycles'[c].pc = "book"]_vars

\* stop() was called while the only cycle awaits the details of a slot, and
\* no /3/book request has been sent yet.
C29_Witness ==
  /\ stopCalled
  /\ ~isRunning
  /\ attemptCount = 1
  /\ cycles[1].pc = "details"
  /\ ~commitCalled

\* C30: /3/auth/password is posted only when no token is held in memory,
\* and once a token is held no step clears or replaces it or starts an
\* authentication, whatever the provider answers to find, details and book.
C30_AuthOnlyWithoutToken ==
  [][/\ (phase' = "authenticating" /\ phase # "authenticating") => authToken = NoToken
     /\ authToken # NoToken => (authToken' = authToken /\ phase' # "authenticating")]_vars

\* The details request of the first target failed with the token held, and
\* the cycle has sent the next /4/find.
C30_Witness ==
  /\ authToken # NoToken
  /\ phase = "sniping"
  /\ attemptCount = 1
  /\ detailsCalled
  /\ ~commitCalled
  /\ cycles[1].pc = "find"
  /\ cycles[1].v = 2

\* C31: the .resy-token file changes only in the step that handles an
\* accepted /3/auth/password response: a details response that refreshes the
\* payment method held in memory, and every failed or rejected provider call,
\* leave the file as it was.
C31_FileWrittenByAuthOnly ==
  [][tokenFile' # tokenFile =>
       /\ phase = "authenticating"
       /\ authToken = NoToken
       /\ authToken' # NoToken]_vars

\* A details response has replaced the payment method of the client by the
\* provider's default, the commit has gone out with it, and the file still
\* holds the payment method it was written or read with.
C31_Witness ==
  /\ phase = "sniping"
  /\ commitCalled
  /\ paymentMethodId = 8
  /\ tokenFile.state = "ok"
  /\ tokenFile.paymentMethodId \in {AuthPaymentMethodId, CachedPaymentMethodId}

\* C32: after stop() on a polling run the snipe call completes: once the run
\* is stopped, no timer is left that could start a cycle and no cycle is
\* awaiting a provider call, the promise of snipe() is settled. Nothing the
\* scheduler does is enabled in such a state, so a promise still pending
\* there is never settled.
C32_StoppedRunReturns ==
  (/\ phase = "sniping"
   /\ stopCalled
   /\ ~isRunning
   /\ ~intervalArmed
   /\ ~cronLive
   /\ InFlight(cycles) = {})
    => outcome.kind # "pending"

\* C33: when a snipe run has returned null to its caller, no commit of the
\* run has succeeded, and when a commit has succeeded it is the only one and
\* the run has returned its Booking Result.
C33_NullMeansNoBooking ==
  command = "snipe" =>
    /\ outcome.kind = "null" => commitSuccesses = 0
    /\ commitSuccesses >= 1 => (commitSuccesses = 1 /\ outcome.kind = "result")

\* C34: when the commit of the cycle whose attempt number equals maxAttempts
\* succeeds, the run returns the Booking Result of that cycle's slot and
\* Target, not the null of the max attempts check.
C34_LastAttemptSucceeds ==
  [][\A c \in CycleIds :
       (/\ command = "snipe"
        /\ options.maxAttempts = c
        /\ CommitSucceeds(c))
         => outcome' = BookingResult(cycles[c].slot, cycles[c].v)]_vars

====
